---- MODULE Spec2Model ----
(***************************************************************************)
(* CVCV name generator: letter-set construction, lazy generation, filters, *)
(* the engine's run() and export_grouped(), and the command-line flow.     *)
(*                                                                         *)
(* A Python str is a sequence of one-character strings.  Every test the    *)
(* code makes on an optional argument is a truthiness test, under which    *)
(* None and "" behave alike, so None is the empty sequence.                *)
(***************************************************************************)
EXTENDS Integers, Sequences, FiniteSets, TLC

\* ------------------------------------------------------------------ bounds
\* string.ascii_lowercase is cut to its first AlphaLen letters
AlphaLen == 3
\* single next() calls modelled per iterator before it is drained
MaxPull == 2
\* generations the desktop application starts
MaxPress == 3

\* -------------------------------------------------------------- characters
LowerLetters ==
  << "a","b","c","d","e","f","g","h","i","j","k","l","m",
     "n","o","p","q","r","s","t","u","v","w","x","y","z" >>

UpperLetters ==
  << "A","B","C","D","E","F","G","H","I","J","K","L","M",
     "N","O","P","Q","R","S","T","U","V","W","X","Y","Z" >>

NL == "\n"

\* code-point order of the characters used: "\n" < "." < "A".."Z" < "a".."z"
CharOrder == << NL, "." >> \o UpperLetters \o LowerLetters

Ord(c) == CHOOSE i \in 1..Len(CharOrder) : CharOrder[i] = c

ascii_lowercase == SubSeq(LowerLetters, 1, AlphaLen)

None == << >>

Chars(s) == { s[i] : i \in 1..Len(s) }

LowerChar(c) ==
  IF \E i \in 1..26 : UpperLetters[i] = c
  THEN LowerLetters[CHOOSE i \in 1..26 : UpperLetters[i] = c]
  ELSE c

\* str.lower()
Lower(s) == [ i \in 1..Len(s) |-> LowerChar(s[i]) ]

RECURSIVE SortedChars(_)
\* sorted(S) for a set of characters
SortedChars(S) ==
  IF S = {} THEN << >>
  ELSE LET m == CHOOSE x \in S : \A y \in S : Ord(x) <= Ord(y)
       IN  << m >> \o SortedChars(S \ {m})

\* normalisation that forgets to lowercase
Normalize_keepCase(s) == SortedChars(Chars(s))

\* "".join(sorted(set(s.lower())))
Normalize(s) == SortedChars(Chars(Lower(s)))

\* Python's  sub in s  for two strs: substring containment
Contains(sub, s) ==
  \E i \in 0..(Len(s) - Len(sub)) : SubSeq(s, i + 1, i + Len(sub)) = sub

\* ------------------------------------------------------------ CVCVGenerator
default_vowels(include_y) ==
  IF include_y THEN << "a","e","i","o","u","y" >> ELSE << "a","e","i","o","u" >>

CVCVGenerator(a) ==
  LET base_vowels0 == IF a.vowels # None THEN a.vowels ELSE default_vowels(a.include_y)
      base_vowels  == IF a.add_vowels # None THEN base_vowels0 \o a.add_vowels
                      ELSE base_vowels0
      vowels       == Normalize(base_vowels)
      base_cons0   == IF a.consonants # None THEN a.consonants
                      ELSE SelectSeq(ascii_lowercase, LAMBDA c : ~Contains(<< c >>, vowels))
      base_cons    == IF a.add_consonants # None THEN base_cons0 \o a.add_consonants
                      ELSE base_cons0
  IN  [ vowels     |-> vowels,
        consonants |-> Normalize(base_cons),
        first      |-> IF a.first # None THEN Lower(a.first) ELSE None ]

\* the check at the head of generate(): True when it raises ValueError
GenerateRaises(g) == g.first # None /\ ~Contains(g.first, g.consonants)

first_letters(g) == IF g.first # None THEN g.first ELSE g.consonants

\* the four iterables handed to itertools.product
Pools(g) == << first_letters(g), g.vowels, g.consonants, g.vowels >>

\* itertools.product: index vector of the first tuple, << >> when there is none
ProductStart(pools) ==
  IF \E j \in 1..4 : Len(pools[j]) = 0 THEN << >> ELSE << 1, 1, 1, 1 >>

\* a product whose first axis varies fastest
ProductAdvance_firstFastest(pools, idx) ==
  LET movable == { j \in 1..4 : idx[j] < Len(pools[j]) }
  IN  IF movable = {} THEN << >>
      ELSE LET j == CHOOSE k \in movable : \A m \in movable : k <= m
           IN  [ k \in 1..4 |-> IF k > j THEN idx[k]
                                ELSE IF k = j THEN idx[k] + 1 ELSE 1 ]

\* itertools.product: the rightmost index that can grow grows, those right of it reset
ProductAdvance(pools, idx) ==
  LET movable == { j \in 1..4 : idx[j] < Len(pools[j]) }
  IN  IF movable = {} THEN << >>
      ELSE LET j == CHOOSE k \in movable : \A m \in movable : m <= k
           IN  [ k \in 1..4 |-> IF k < j THEN idx[k]
                                ELSE IF k = j THEN idx[k] + 1 ELSE 1 ]

\* c1 + v1 + c2 + v2
Tuple(pools, idx) == [ k \in 1..4 |-> pools[k][idx[k]] ]

\* ------------------------------------------------------------------ filters
NoFilter(n) == TRUE

OnlyRepeatingVowels(n) == n[2] = n[4]

OnlyRepeatingConsonants(n) == n[1] = n[3]

\* either pair repeating instead of both
OnlyRepeatingBoth_either(n) == n[1] = n[3] \/ n[2] = n[4]

OnlyRepeatingBoth(n) == n[1] = n[3] /\ n[2] = n[4]

FilterKinds == { "none", "repeat_vowels", "repeat_consonants", "repeat_both" }

\* filters.get(filter_type, NoFilter())
get_filter(filter_type) ==
  IF filter_type \in FilterKinds THEN filter_type ELSE "none"

\* name_filter.apply(name)
Apply(f, n) ==
  CASE f = "repeat_vowels"     -> OnlyRepeatingVowels(n)
    [] f = "repeat_consonants" -> OnlyRepeatingConsonants(n)
    [] f = "repeat_both"       -> OnlyRepeatingBoth(n)
    [] OTHER                   -> NoFilter(n)

\* ------------------------------------------------- a run() iteration, lazily
\* st: "none" no iterator, "fresh" created and not yet advanced, "running",
\*     "done" exhausted, "raised" ended by the ValueError of generate()
\* cores: what generate() has yielded; out: what run() has yielded
NoIter ==
  [ st |-> "none", pools |-> << >>, nxt |-> << >>, cores |-> << >>, out |-> << >>,
    born |-> 0 ]

\* body of  for name in generate(): if apply(name): yield name + suffix
\* for the tuple the product is standing on
Emit(e, r) ==
  LET name == Tuple(r.pools, r.nxt)
  IN  [ r EXCEPT !.st    = "running",
                 !.cores = Append(r.cores, name),
                 !.out   = IF Apply(e.name_filter, name)
                           THEN Append(r.out, name \o e.suffix) ELSE r.out,
                 !.nxt   = ProductAdvance(r.pools, r.nxt) ]

\* one next() on generate() together with the loop body of run() for its result
StepIter(g, e, r) ==
  IF r.st = "fresh"
  THEN IF GenerateRaises(g) THEN [ r EXCEPT !.st = "raised" ]
       ELSE LET s == [ r EXCEPT !.pools = Pools(g), !.nxt = ProductStart(Pools(g)) ]
            IN  IF s.nxt = << >> THEN [ s EXCEPT !.st = "done" ] ELSE Emit(e, s)
  ELSE IF r.nxt = << >> THEN [ r EXCEPT !.st = "done" ] ELSE Emit(e, r)

RECURSIVE StepN(_, _, _, _)
\* up to n successive next() calls, stopping when the iterator ends
StepN(g, e, r, n) ==
  IF n = 0 \/ r.st \in { "done", "raised" } THEN r
  ELSE IF n = 1 THEN StepIter(g, e, r)
  ELSE LET half == StepN(g, e, r, n \div 2)
       IN  StepN(g, e, half, n - (n \div 2))

RECURSIVE DrainIter(_, _, _)
\* list(it): next() until the iterator ends
DrainIter(g, e, r) ==
  IF r.st \in { "done", "raised" } THEN r
  ELSE LET s == StepN(g, e, r, 256) IN DrainIter(g, e, s)

\* list(engine.run()) on a new iterator
RunAll(g, e) == DrainIter(g, e, [ NoIter EXCEPT !.st = "fresh" ])

\* ------------------------------------------------------------- output files
TXT == << ".", "t", "x", "t" >>

\* f"{letter}.txt" inside the folder
FileName(letter) == letter \o TXT

\* glob("*.txt"): ends in .txt and is not a dot file
GlobTxt(name) ==
  /\ Len(name) >= Len(TXT)
  /\ SubSeq(name, Len(name) - Len(TXT) + 1, Len(name)) = TXT
  /\ name[1] # "."

RECURSIVE RemoveTxt(_)
\* filename.replace(".txt", "")
RemoveTxt(s) ==
  IF s = << >> THEN << >>
  ELSE IF Len(s) >= Len(TXT) /\ SubSeq(s, 1, Len(TXT)) = TXT
       THEN RemoveTxt(SubSeq(s, Len(TXT) + 1, Len(s)))
       ELSE << Head(s) >> \o RemoveTxt(Tail(s))

RECURSIVE JoinRange(_, _, _)
JoinRange(names, lo, hi) ==
  IF lo > hi THEN << >>
  ELSE IF lo = hi THEN names[lo]
  ELSE LET mid == (lo + hi) \div 2
       IN  JoinRange(names, lo, mid) \o << NL >> \o JoinRange(names, mid + 1, hi)

\* "\n".join(names)
Join(names) == JoinRange(names, 1, Len(names))

\* grouped.setdefault(name[0], []).append(name) over all names
Grouped(names) ==
  [ k \in { << names[i][1] >> : i \in 1..Len(names) } |->
      SelectSeq(names, LAMBDA n : << n[1] >> = k) ]

\* grouped.get(letter, [])
GroupedGet(grouped, letter) ==
  IF letter \in DOMAIN grouped THEN grouped[letter] ELSE << >>

RECURSIVE SumLens(_, _)
\* sum(len(v) for v in grouped.values())
SumLens(grouped, keys) ==
  IF keys = {} THEN 0
  ELSE LET k == CHOOSE x \in keys : TRUE
       IN  Len(grouped[k]) + SumLens(grouped, keys \ {k})

\* the files that SHOULD exist
allowed_letters(g) ==
  IF g.first # None THEN { g.first }
  ELSE { << g.consonants[i] >> : i \in 1..Len(g.consonants) }

\* the orders in which  for letter in allowed_letters  may visit a set
Orders(S) ==
  { o \in [ 1..Cardinality(S) -> S ] : \A i, j \in 1..Cardinality(S) : o[i] = o[j] => i = j }

\* written.append(file_path) for the letters in the order visited
Written(order) == [ i \in 1..Len(order) |-> FileName(order[i]) ]

\* NameEngine.export_grouped(folder), all but the order of the returned paths
export_grouped(g, e, f) ==
  LET made    == [ f EXCEPT !.exists = TRUE ]
      r       == RunAll(g, e)
      grouped == Grouped(r.out)
      allowed == allowed_letters(g)
      kept    == { n \in DOMAIN f.files : ~(GlobTxt(n) /\ RemoveTxt(n) \notin allowed) }
      names   == kept \cup { FileName(l) : l \in allowed }
      files   == [ n \in names |->
                     IF \E l \in allowed : FileName(l) = n
                     THEN Join(GroupedGet(grouped, CHOOSE l \in allowed : FileName(l) = n))
                     ELSE f.files[n] ]
  IN  IF r.st = "raised"
      THEN [ folder |-> made, raised |-> TRUE, total |-> 0 ]
      ELSE [ folder |-> [ made EXCEPT !.files = files ],
             raised |-> FALSE,
             total  |-> SumLens(grouped, DOMAIN grouped) ]

\* allowed_letters as main() computes it for --clear; none stands for None
MainAllowed(a) ==
  IF a.first # None THEN [ none |-> FALSE, letters |-> { a.first } ]
  ELSE IF a.consonants # None
       THEN [ none |-> FALSE, letters |-> { << a.consonants[i] >> : i \in 1..Len(a.consonants) } ]
       ELSE [ none |-> TRUE, letters |-> {} ]

\* clear_output(folder, allowed_letters)
clear_output(f, allowed) ==
  IF ~f.exists THEN f
  ELSE LET doomed == { n \in DOMAIN f.files :
                         /\ GlobTxt(n)
                         /\ Len(RemoveTxt(n)) = 1
                         /\ (allowed.none \/ RemoveTxt(n) \notin allowed.letters) }
       IN  [ f EXCEPT !.files = [ n \in (DOMAIN f.files) \ doomed |-> f.files[n] ] ]

\* ------------------------------------------------------------------- inputs
VowelArgs == { None, << "E", "a" >> }

ConsonantArgs == { None, << "c", "b" >> }

AddVowelArgs == { None, << "c" >> }

AddConsonantArgs == { None, << "D" >> }

FirstArgs == { None, << "B" >>, << "a" >>, << "b", "c" >> }

IncludeYArgs == { FALSE }

SuffixArgs == { << >>, << "i", "o" >> }

ArgSpace ==
  [ vowels : VowelArgs, consonants : ConsonantArgs, add_vowels : AddVowelArgs,
    add_consonants : AddConsonantArgs, include_y : IncludeYArgs, first : FirstArgs,
    filter : FilterKinds, suffix : SuffixArgs ]

\* NameEngine(generator, name_filter, suffix)
NameEngine(a) == [ name_filter |-> get_filter(a.filter), suffix |-> a.suffix ]

\* -------------------------------------------------------------------- state
VARIABLES
  args,     \* the constructor arguments / command-line flags
  gen,      \* the CVCVGenerator: vowels, consonants, first
  eng,      \* the NameEngine: name_filter, suffix
  it,       \* two run() iterations over the same engine
  folder,   \* the output folder: exists, files (name -> content)
  pc,       \* where the export / command-line flow stands
  ret,      \* what export_grouped returned
  stdout,   \* names printed by the command-line flow
  pre,      \* the output folder as it was before the flow began
  gui       \* the desktop application: form, held results, worker, event queue

vars == << args, gen, eng, it, folder, pc, ret, stdout, pre, gui >>

Iters == { 1, 2 }

Other(i) == 3 - i

NoFolder == [ exists |-> FALSE, files |-> << >> ]

NoRet == [ written |-> << >>, total |-> 0 ]

\* no application window
NoGui == << >>

InitObjects ==
  /\ args \in ArgSpace
  /\ gen = CVCVGenerator(args)
  /\ eng = NameEngine(args)

Init ==
  /\ InitObjects
  /\ it = [ i \in Iters |-> NoIter ]
  /\ folder = NoFolder
  /\ pc = "ready"
  /\ ret = NoRet
  /\ stdout = << >>
  /\ pre = folder
  /\ gui = NoGui

\* engine.run(): a new iterator, nothing of its body has run yet
StartRun(i) ==
  /\ it[i].st = "none"
  /\ i = 2 => it[1].st # "none"
  /\ it' = [ it EXCEPT ![i] = [ NoIter EXCEPT !.st = "fresh",
                                              !.born = Len(it[Other(i)].cores) ] ]
  /\ UNCHANGED << args, gen, eng, folder, pc, ret, stdout, pre, gui >>

\* next(it)
NextName(i) ==
  /\ it[i].st \in { "fresh", "running" }
  /\ Len(it[i].cores) < MaxPull
  /\ it' = [ it EXCEPT ![i] = StepIter(gen, eng, it[i]) ]
  /\ UNCHANGED << args, gen, eng, folder, pc, ret, stdout, pre, gui >>

\* list(it): consume what is left
Drain(i) ==
  /\ it[i].st \in { "fresh", "running" }
  /\ it' = [ it EXCEPT ![i] = DrainIter(gen, eng, it[i]) ]
  /\ UNCHANGED << args, gen, eng, folder, pc, ret, stdout, pre, gui >>

Next ==
  \/ \E i \in Iters : StartRun(i)
  \/ \E i \in Iters : NextName(i)
  \/ \E i \in Iters : Drain(i)

Spec == Init /\ [][Next]_vars

\* ---------------------------------------------------- export and command line
OldContent == << "o", "l", "d" >>

PreFileSets ==
  { {},
    { FileName(<< "b" >>), FileName(<< "x" >>) },
    { FileName(<< "b" >>), FileName(<< "x" >>), FileName(<< "x", "y" >>),
      << "x", ".", "m", "d" >> } }

PreFolders ==
  { NoFolder } \cup
  { [ exists |-> TRUE, files |-> [ n \in S |-> OldContent ] ] : S \in PreFileSets }

InitExport ==
  /\ InitObjects
  /\ it = [ i \in Iters |-> NoIter ]
  /\ folder \in PreFolders
  /\ pc = "ready"
  /\ ret = NoRet
  /\ stdout = << >>
  /\ pre = folder
  /\ gui = NoGui

\* engine.export_grouped(folder) called on the engine, as _run_export does
Export ==
  /\ pc = "ready"
  /\ LET x == export_grouped(gen, eng, folder)
     IN  /\ folder' = x.folder
         /\ IF x.raised
            THEN pc' = "export_failed" /\ ret' = ret
            ELSE /\ pc' = "export_ok"
                 /\ \E order \in Orders(allowed_letters(gen)) :
                      ret' = [ written |-> Written(order), total |-> x.total ]
  /\ UNCHANGED << args, gen, eng, it, stdout, pre, gui >>

\* main(): allowed_letters and the --clear step
MainClear(clear) ==
  /\ pc = "ready"
  /\ folder' = IF clear THEN clear_output(folder, MainAllowed(args)) ELSE folder
  /\ pc' = "main_cleared"
  /\ UNCHANGED << args, gen, eng, it, ret, stdout, pre, gui >>

\* main(): build generator, filter and engine, then --export or print
MainRun(export) ==
  /\ pc = "main_cleared"
  /\ LET g == CVCVGenerator(args)
         e == NameEngine(args)
     IN  IF export
         THEN LET x == export_grouped(g, e, folder)
              IN  /\ folder' = x.folder
                  /\ pc' = IF x.raised THEN "main_failed" ELSE "main_exported"
                  /\ stdout' = stdout
         ELSE LET r == RunAll(g, e)
              IN  /\ folder' = folder
                  /\ pc' = IF r.st = "raised" THEN "main_print_failed" ELSE "main_printed"
                  /\ stdout' = r.out
  /\ UNCHANGED << args, gen, eng, it, ret, pre, gui >>

NextExport ==
  \/ Export
  \/ \E clear \in BOOLEAN : MainClear(clear)
  \/ \E export \in BOOLEAN : MainRun(export)

SpecExport == InitExport /\ [][NextExport]_vars


\* ------------------------------------------------------- letter set builder
BuildArgSpace ==
  [ vowels : VowelArgs \cup { << "a", "y", "A" >> },
    consonants : ConsonantArgs \cup { << "B", "a", "b" >> },
    add_vowels : AddVowelArgs, add_consonants : AddConsonantArgs,
    include_y : BOOLEAN, first : FirstArgs,
    filter : { "none" }, suffix : { << >> } ]

\* no generator constructed yet
Unbuilt == [ vowels |-> << >>, consonants |-> << >>, first |-> None ]

InitBuild ==
  /\ args \in BuildArgSpace
  /\ gen = Unbuilt
  /\ eng = NameEngine(args)
  /\ it = [ i \in Iters |-> NoIter ]
  /\ folder = NoFolder
  /\ pc = "unbuilt"
  /\ ret = NoRet
  /\ stdout = << >>
  /\ pre = folder
  /\ gui = NoGui

\* CVCVGenerator(vowels, consonants, add_vowels, add_consonants, include_y, first)
Construct ==
  /\ pc = "unbuilt"
  /\ gen' = CVCVGenerator(args)
  /\ pc' = "built"
  /\ UNCHANGED << args, eng, it, folder, ret, stdout, pre, gui >>

NextBuild == Construct

SpecBuild == InitBuild /\ [][NextBuild]_vars


\* ------------------------------------------------------ desktop application
\* str.strip() for the blank
Strip(t) ==
  LET keep == { i \in 1..Len(t) : t[i] # " " }
  IN  IF keep = {} THEN << >>
      ELSE SubSeq(t, CHOOSE i \in keep : \A j \in keep : i <= j,
                     CHOOSE i \in keep : \A j \in keep : j <= i)

\* FILTERS[label]
FILTERS(label) ==
  CASE label = "None"                 -> "none"
    [] label = "Repeating Vowels"     -> "repeat_vowels"
    [] label = "Repeating Consonants" -> "repeat_consonants"
    [] label = "Repeating Both"       -> "repeat_both"

\* CVCVApp._make_generator(): the engine for what the form holds now
make_generator(form) ==
  [ g |-> CVCVGenerator([ vowels         |-> Strip(form.vowels),
                          consonants     |-> Strip(form.consonants),
                          add_vowels     |-> Strip(form.add_vowels),
                          add_consonants |-> Strip(form.add_consonants),
                          include_y      |-> form.include_y,
                          first          |-> Strip(form.first) ]),
    e |-> [ name_filter |-> FILTERS(form.filter), suffix |-> Strip(form.suffix) ] ]

\* str(e) of the ValueError raised by generate()
ErrorText(g) ==
  << "First letter '" >> \o g.first \o << "' must exist in consonant set." >>

EmptyForm ==
  [ vowels |-> << >>, consonants |-> << >>, add_vowels |-> << >>,
    add_consonants |-> << >>, include_y |-> FALSE, first |-> << >>,
    filter |-> "None", suffix |-> << >> ]

NoFinish ==
  [ kind |-> "none", held |-> << >>, prior |-> << >>, after |-> << >>,
    running |-> FALSE, btn |-> "normal" ]

\* CVCVApp.__init__: nothing held, idle.  workers are the threads started, with
\* how often each scheduled _finish_generate (posts), how many of those calls
\* have run (delivered) and the results held when it was started (held); queue
\* is the event loop's pending after() calls; last describes the latest
\* _finish_generate
AppInit ==
  [ form |-> EmptyForm, results |-> << >>, running |-> FALSE, btn |-> "normal",
    status |-> "ready", shown |-> << >>, count |-> << 0, 0 >>, search |-> << >>,
    workers |-> << >>, queue |-> << >>, last |-> NoFinish ]

\* a press that ignores a generation in flight
run_generate_returns_never(a) == FALSE

\* _run_generate: if self._running: return
run_generate_returns(a) == a.running

\* _run_generate past its guard: mark running, disable the button, start the thread
run_generate(a) ==
  [ a EXCEPT !.running = TRUE, !.btn = "disabled", !.status = "generating",
             !.workers = Append(a.workers,
                                [ st |-> "started", posts |-> 0, delivered |-> 0,
                                  held |-> a.results ]) ]

\* _generate_thread for worker w: one after(0, _finish_generate, ...) and nothing else
generate_thread(a, w) ==
  LET mk   == make_generator(a.form)
      r    == RunAll(mk.g, mk.e)
      item == IF r.st = "raised"
              THEN [ names |-> << >>, error |-> ErrorText(mk.g), worker |-> w ]
              ELSE [ names |-> r.out, error |-> None, worker |-> w ]
  IN  [ a EXCEPT !.queue = Append(a.queue, item),
                 !.workers[w].st = "ended",
                 !.workers[w].posts = @ + 1 ]

\* a _finish_generate that stores the names whatever the outcome
finish_generate_storing(a, item) ==
  LET idle == [ a EXCEPT !.running = FALSE, !.btn = "normal" ]
      done == [ idle EXCEPT !.results = item.names, !.shown = item.names,
                            !.status = IF item.error # None THEN "error" ELSE "done",
                            !.count = << Len(item.names), Len(item.names) >> ]
  IN  done

\* _finish_generate(names, error)
finish_generate(a, item) ==
  LET idle == [ a EXCEPT !.running = FALSE, !.btn = "normal" ]
  IN  IF item.error # None
      THEN [ idle EXCEPT !.status = "error" ]
      ELSE [ idle EXCEPT !.results = item.names, !.shown = item.names,
                         !.status = "done",
                         !.count = << Len(item.names), Len(item.names) >> ]

\* _clear_results; setting the search variable runs _on_search on no results
clear_results(a) ==
  [ a EXCEPT !.results = << >>, !.shown = << >>, !.count = << 0, 0 >>,
             !.search = << >>, !.status = "cleared" ]

\* _on_search after the search variable was set to q
on_search(a, q) ==
  LET query    == Lower(q)
      filtered == IF query # << >>
                  THEN SelectSeq(a.results, LAMBDA n : Contains(query, n))
                  ELSE a.results
  IN  IF a.results = << >> THEN [ a EXCEPT !.search = q ]
      ELSE [ a EXCEPT !.search = q, !.shown = filtered,
                      !.count = << Len(filtered), Len(a.results) >> ]

FormFirsts == { << >>, << "b", " " >>, << "a" >> }

Queries == { << >>, << "B", "a" >> }

InitGui ==
  /\ args = CHOOSE a \in ArgSpace : TRUE    \* the command line is not involved
  /\ gen = Unbuilt
  /\ eng = NameEngine(args)
  /\ it = [ i \in Iters |-> NoIter ]
  /\ folder = NoFolder
  /\ pc = "gui"
  /\ ret = NoRet
  /\ stdout = << >>
  /\ pre = folder
  /\ gui = AppInit

GuiFrame == UNCHANGED << args, gen, eng, it, folder, pc, ret, stdout, pre >>

\* the user types into the first-letter entry
EditFirst(f) ==
  /\ gui.form.first # f
  /\ gui' = [ gui EXCEPT !.form.first = f ]
  /\ GuiFrame

\* _run_generate is invoked
PressGenerate ==
  /\ Len(gui.workers) < MaxPress
  /\ ~run_generate_returns(gui)
  /\ gui' = run_generate(gui)
  /\ GuiFrame

\* the worker thread runs _generate_thread
GenerateThread(w) ==
  /\ gui.workers[w].st = "started"
  /\ gui' = generate_thread(gui, w)
  /\ GuiFrame

\* the event loop runs the oldest pending _finish_generate
FinishGenerate ==
  /\ gui.queue # << >>
  /\ LET item == Head(gui.queue)
         a    == finish_generate([ gui EXCEPT !.queue = Tail(gui.queue) ], item)
     IN  gui' = [ a EXCEPT
                    !.workers[item.worker].delivered = @ + 1,
                    !.last = [ kind    |-> IF item.error # None THEN "error" ELSE "ok",
                               held    |-> gui.workers[item.worker].held,
                               prior   |-> gui.results,
                               after   |-> a.results,
                               running |-> a.running,
                               btn     |-> a.btn ] ]
  /\ GuiFrame

\* the Clear button
PressClear ==
  /\ gui' = clear_results(gui)
  /\ gui' # gui
  /\ GuiFrame

\* the user types q into the search box
Search(q) ==
  /\ gui.search # q
  /\ gui' = on_search(gui, q)
  /\ GuiFrame

NextGui ==
  \/ \E f \in FormFirsts : EditFirst(f)
  \/ PressGenerate
  \/ \E w \in 1..Len(gui.workers) : GenerateThread(w)
  \/ FinishGenerate
  \/ PressClear
  \/ \E q \in Queries : Search(q)

SpecGui == InitGui /\ [][NextGui]_vars

\* =================================================================== claims
Pinned == gen.first # None

VowelSet == Chars(gen.vowels)

ConsonantSet == Chars(gen.consonants)

\* the pinned first letter is a member of the consonant set
PinIsConsonant == Len(gen.first) = 1 /\ gen.first[1] \in ConsonantSet

Advanced(i) == it[i].st \in { "running", "done", "raised" }

\* C1: when generate() succeeds, the number of names it yields is
\* |first-alphabet| x |vowels| x |consonants| x |vowels|, the first-alphabet being
\* the single pinned letter when a pin is configured, else the consonant set.
C1_Count ==
  \A i \in Iters :
    it[i].st = "done" =>
      Len(it[i].cores) =
        (IF Pinned THEN 1 ELSE Cardinality(ConsonantSet))
          * Cardinality(VowelSet) * Cardinality(ConsonantSet) * Cardinality(VowelSet)

\* the letters of the four positions, first position outermost
Axes == << IF Pinned THEN gen.first ELSE gen.consonants,
           gen.vowels, gen.consonants, gen.vowels >>

AxisSorted(s) == \A i, j \in 1..Len(s) : i < j => Ord(s[i]) < Ord(s[j])

\* how many names pass while the letter at position j stays the same
Weight(j) ==
  CASE j = 4 -> 1
    [] j = 3 -> Len(Axes[4])
    [] j = 2 -> Len(Axes[3]) * Len(Axes[4])
    [] j = 1 -> Len(Axes[2]) * Len(Axes[3]) * Len(Axes[4])

\* the k-th name (from 0) of the nesting order, the last position varying fastest
Nested(k) == [ j \in 1..4 |-> Axes[j][((k \div Weight(j)) % Len(Axes[j])) + 1] ]

\* C2: generate() yields names in cartesian-product nesting order, each axis in
\* sorted order, and every iteration over the same generator, also one started
\* after another was partly consumed, yields the same sequence, generate()
\* changing none of vowels, consonants and first.
C2_OrderAndRestart ==
  /\ gen = CVCVGenerator(args)
  /\ \A j \in 1..4 : AxisSorted(Axes[j])
  /\ \A i \in Iters :
       /\ \A k \in 1..Len(it[i].cores) : it[i].cores[k] = Nested(k - 1)
       /\ it[i].st = "done" => Len(it[i].cores) = Len(Axes[1]) * Weight(1)
  /\ LET n == IF Len(it[1].cores) < Len(it[2].cores)
              THEN Len(it[1].cores) ELSE Len(it[2].cores)
     IN  SubSeq(it[1].cores, 1, n) = SubSeq(it[2].cores, 1, n)

\* a second iteration, begun while the first was partly consumed, and the first
\* have both run to the end over a first axis of several letters
C2_Witness ==
  /\ it[1].st = "done" /\ it[2].st = "done"
  /\ it[2].born >= 1 /\ it[2].born < Len(it[1].cores)
  /\ Len(Axes[1]) >= 2 /\ Len(Axes[2]) >= 2
  /\ it[1].cores = it[2].cores

\* C3: a pinned first letter that is not a member of the consonant set makes
\* generation fail with the invalid-configuration error before any name is
\* yielded, for every pin the constructor accepts.
C3_PinRejected ==
  \A i \in Iters :
    (Pinned /\ ~PinIsConsonant /\ Advanced(i)) =>
      (it[i].st = "raised" /\ it[i].cores = << >> /\ it[i].out = << >>)

\* C5: with a pin configured and generation succeeding, every generated name
\* starts with the one lowercased pinned character, and the allowed-letter set of
\* export_grouped is the set of first characters of the generated names.
C5_SingleFirstLetter ==
  \A i \in Iters :
    (Pinned /\ it[i].st = "done") =>
      LET firsts == { << it[i].cores[k][1] >> : k \in 1..Len(it[i].cores) }
      IN  /\ firsts = { Lower(args.first) }
          /\ Len(args.first) = 1
          /\ allowed_letters(gen) = firsts

\* the filter kinds as stated: positions counted from 0 in the 4-character core
Accepts(kind, core) ==
  CASE kind = "none"              -> TRUE
    [] kind = "repeat_vowels"     -> core[2] = core[4]
    [] kind = "repeat_consonants" -> core[1] = core[3]
    [] kind = "repeat_both"       -> core[1] = core[3] /\ core[2] = core[4]

\* C6: run() yields, in generator order, core+suffix for exactly the generated
\* cores the filter accepts, the filter being evaluated on the unsuffixed core;
\* positions 0-3 of every emitted name are the accepted core.
C6_RunOutput ==
  \A i \in Iters :
    LET accepted == SelectSeq(it[i].cores, LAMBDA c : Accepts(args.filter, c))
    IN  /\ Len(it[i].out) = Len(accepted)
        /\ \A k \in 1..Len(accepted) :
             /\ it[i].out[k] = accepted[k] \o args.suffix
             /\ SubSeq(it[i].out[k], 1, 4) = accepted[k]

\* a finished run with a suffix in which the filter dropped some cores and kept others
C6_Witness ==
  \E i \in Iters :
    /\ it[i].st = "done"
    /\ args.suffix # << >>
    /\ args.filter = "repeat_both"
    /\ 0 < Len(it[i].out) /\ Len(it[i].out) < Len(it[i].cores)

\* ------------------------------------------------------ claims about export
\* what run() yields for the engine
RunNames == RunAll(gen, eng).out

\* the allowed letters as stated: the pinned letter, else every consonant
AllowedLetters ==
  IF Pinned THEN { gen.first } ELSE { << c >> : c \in ConsonantSet }

BeginsWith(n, l) == Len(n) >= Len(l) /\ SubSeq(n, 1, Len(l)) = l

\* a one-letter name followed by .txt
SingleLetterTxt(n) == Len(n) = 1 + Len(TXT) /\ SubSeq(n, 2, Len(n)) = TXT

ExportAttempted == pc \in { "export_ok", "export_failed", "main_exported", "main_failed" }

ExportSucceeded == pc \in { "export_ok", "main_exported" }

\* C4: with a pinned first letter outside the consonant set an export attempt,
\* called directly or through the command line with or without --clear, fails
\* and leaves the output folder exactly as it was: not created, no file written,
\* none deleted.
C4_NoSideEffects ==
  (Pinned /\ ~PinIsConsonant /\ ExportAttempted) =>
    (pc \in { "export_failed", "main_failed" } /\ folder = pre)

\* C7: after a successful export every allowed letter has its file <letter>.txt,
\* holding exactly the newline-joined run() names that begin with the letter, in
\* run() order, whatever the folder held before.
C7_FilesPerLetter ==
  ExportSucceeded =>
    \A l \in AllowedLetters :
      /\ FileName(l) \in DOMAIN folder.files
      /\ folder.files[FileName(l)] =
           Join(SelectSeq(RunNames, LAMBDA n : BeginsWith(n, l)))

\* C8: export_grouped removes exactly the pre-existing single-letter .txt files
\* whose letter is not allowed; every other pre-existing file that is not a
\* single-letter .txt file stays, unchanged.
C8_StaleRemoval ==
  pc = "export_ok" =>
    \A n \in DOMAIN pre.files :
      /\ (SingleLetterTxt(n) /\ << n[1] >> \notin AllowedLetters)
           => n \notin DOMAIN folder.files
      /\ ~SingleLetterTxt(n)
           => (n \in DOMAIN folder.files /\ folder.files[n] = pre.files[n])

\* two runs of pieces meeting inside a name: the name is put together again
Glue(l, r) ==
  SubSeq(l, 1, Len(l) - 1) \o << l[Len(l)] \o r[1] >> \o SubSeq(r, 2, Len(r))

RECURSIVE SplitRange(_, _, _)
\* content[lo..hi] split on newlines
SplitRange(content, lo, hi) ==
  IF lo = hi
  THEN IF content[lo] = NL THEN << << >>, << >> >> ELSE << << content[lo] >> >>
  ELSE LET mid == (lo + hi) \div 2
       IN  Glue(SplitRange(content, lo, mid), SplitRange(content, mid + 1, hi))

\* the names of a file split on newlines; an empty file holds no name
ReadNames(content) ==
  IF content = << >> THEN << >> ELSE SplitRange(content, 1, Len(content))

Range(q) == { q[i] : i \in 1..Len(q) }

WrittenFiles == { FileName(l) : l \in allowed_letters(gen) }

\* C9: reading back the per-letter files of a successful export, splitting each
\* on newlines and taking the union gives exactly the set of run() names, each
\* file keeping the order run() gave its names.
C9_RoundTrip ==
  ExportSucceeded =>
    /\ UNION { Range(ReadNames(folder.files[f])) : f \in WrittenFiles } = Range(RunNames)
    /\ \A f \in WrittenFiles :
         LET got == ReadNames(folder.files[f])
         IN  got = SelectSeq(RunNames, LAMBDA n : n \in Range(got))

RECURSIVE NamesIn(_)
\* how many names the given files hold
NamesIn(fs) ==
  IF fs = {} THEN 0
  ELSE LET f == CHOOSE x \in fs : TRUE
       IN  Len(ReadNames(folder.files[f])) + NamesIn(fs \ {f})

\* C10: export_grouped returns one written path per allowed letter and a total
\* equal to the number of names in the written files, which is the number of
\* names run() yields.
C10_Return ==
  pc = "export_ok" =>
    /\ Len(ret.written) = Cardinality(AllowedLetters)
    /\ Range(ret.written) = { FileName(l) : l \in AllowedLetters }
    /\ Range(ret.written) \subseteq DOMAIN folder.files
    /\ ret.total = NamesIn(Range(ret.written))
    /\ ret.total = Len(RunNames)

\* -------------------------------------------- claims about the letter sets
\* the vowel input as stated: explicit vowels, else "aeiou" with "y" on request,
\* followed by the additional vowels
VowelInput ==
  (IF args.vowels # None THEN args.vowels
   ELSE IF args.include_y THEN << "a", "e", "i", "o", "u", "y" >>
        ELSE << "a", "e", "i", "o", "u" >>)
  \o args.add_vowels

\* the consonant input as stated: explicit consonants, else the ASCII lowercase
\* letters outside the computed vowel set, followed by the additional consonants
ConsonantInput ==
  (IF args.consonants # None THEN args.consonants
   ELSE SelectSeq(ascii_lowercase, LAMBDA c : c \notin Chars(gen.vowels)))
  \o args.add_consonants

\* result holds the lowercased characters of input, each once, in ascending order
SortedSetOf(result, input) ==
  /\ AxisSorted(result)
  /\ Chars(result) = { LowerChar(input[i]) : i \in 1..Len(input) }

\* C11: the builder yields vowels and consonants as the sorted, duplicate-free,
\* lowercased characters of their inputs; include-Y has no effect when explicit
\* vowels are given, and without explicit or additional consonants the two sets
\* are disjoint.
C11_LetterSets ==
  pc = "built" =>
    /\ SortedSetOf(gen.vowels, VowelInput)
    /\ SortedSetOf(gen.consonants, ConsonantInput)
    /\ gen.first = Lower(args.first)
    /\ args.vowels # None =>
         gen.vowels = CVCVGenerator([ args EXCEPT !.include_y = ~@ ]).vowels
    /\ (args.consonants = None /\ args.add_consonants = None) =>
         Chars(gen.vowels) \cap Chars(gen.consonants) = {}

\* built from mixed-case explicit vowels with a repeated letter, include-Y set,
\* and consonants derived from the alphabet
C11_Witness ==
  /\ pc = "built"
  /\ args.vowels = << "a", "y", "A" >> /\ args.include_y
  /\ args.consonants = None /\ args.add_consonants # None
  /\ gen.vowels = << "a", "y" >>
  /\ Len(gen.consonants) >= 2

\* ------------------------------------- claims about the desktop application
\* C12 as stated: after a Generate that failed with the invalid-configuration
\* error the held results equal the list held when Generate was pressed, and
\* the interface is idle again.
C12_HeldAsAtPress ==
  gui.last.kind = "error" =>
    /\ gui.last.after = gui.last.held
    /\ ~gui.last.running /\ gui.last.btn = "normal"

\* C12: a _finish_generate that reports the invalid-configuration error leaves
\* the held results as they were when it began and returns the interface to
\* idle (_running false, Generate enabled).
C12_FinishKeepsResults ==
  gui.last.kind = "error" =>
    /\ gui.last.after = gui.last.prior
    /\ ~gui.last.running /\ gui.last.btn = "normal"

\* a failed generation was reported while names were held, they are still held,
\* and a later generation has been started
C12_Witness ==
  /\ gui.last.kind = "error"
  /\ gui.last.prior # << >> /\ gui.results = gui.last.prior
  /\ gui.status = "generating" /\ gui.running

Pending(w) == { k \in 1..Len(gui.queue) : gui.queue[k].worker = w }

InFlight == { w \in 1..Len(gui.workers) : gui.workers[w].delivered = 0 }

\* what belongs to the UI thread
UiOwned ==
  << gui.results, gui.running, gui.btn, gui.status, gui.shown, gui.count, gui.search >>

\* a step of a worker thread
WorkerStep ==
  \E w \in 1..Len(gui.workers) :
    gui.workers[w].st = "started" /\ gui'.workers[w].st = "ended"

HandedOverOnce ==
  /\ \A w \in 1..Len(gui.workers) :
       /\ gui.workers[w].posts = (IF gui.workers[w].st = "ended" THEN 1 ELSE 0)
       /\ Cardinality(Pending(w)) + gui.workers[w].delivered = gui.workers[w].posts
  /\ \A k \in 1..Len(gui.queue) :
       gui.queue[k].error # None => gui.queue[k].names = << >>
  /\ Cardinality(InFlight) <= 1
  /\ gui.running = (InFlight # {})

\* C13: under every interleaving of Generate, Clear, search and worker
\* completion the worker writes no UI-owned state and hands its outcome over
\* exactly once: one _finish_generate per started worker, with the names or an
\* error and never both; no second worker starts while one is in flight.
C13_WorkerHandsOverOnce ==
  /\ [] HandedOverOnce
  /\ [][ WorkerStep => UiOwned' = UiOwned ]_vars

\* a worker started after an earlier one was delivered has failed and its error
\* waits in the event queue, the interface still marked running
C13_Witness ==
  /\ Len(gui.workers) >= 2
  /\ gui.workers[1].delivered = 1
  /\ gui.queue # << >> /\ gui.queue[1].error # None /\ gui.queue[1].worker = 2
  /\ gui.running /\ gui.results # << >>

\* ------------------------------------------ claims about the --clear step
\* C14: on the command line the letter restriction handed to the clear step,
\* whenever there is one, equals the allowed-letter set of export_grouped for
\* the same flags, so the clear step deletes no file that export treats as
\* current.
C14_ClearAgreesWithExport ==
  (pc = "main_cleared" /\ ~MainAllowed(args).none) =>
    /\ MainAllowed(args).letters = allowed_letters(gen)
    /\ \A n \in (DOMAIN pre.files) \ (DOMAIN folder.files) :
         n \notin { FileName(l) : l \in allowed_letters(gen) }

====
